---- MODULE Spec2Model ----
(***************************************************************************)
(* Multi-protocol broadcaster: the listener multiplexer                    *)
(* (ChatBroadcaster.handleIncomingMessage / sendAcknowledgment /           *)
(* sendMessage), the evidence store (ChatDatabase) and the fan-out         *)
(* broadcaster (Broadcaster.initialize / broadcast and the driver pools).  *)
(*                                                                         *)
(* JavaScript runs every callback to completion: a step of the model is    *)
(* the code between two awaits.  Every SQL statement is one atomic step of *)
(* the store.                                                              *)
(***************************************************************************)
EXTENDS Integers, Sequences, FiniteSets, TLC

\* ------------------------------------------------------------------ bounds
MaxArrivals == 3    \* inbound arrivals handed to handleIncomingMessage in a run
MaxFaults == 1      \* store calls the environment disturbs with errors in a run
MaxSends == 1       \* sendMessage / broadcast calls in a run
MaxNow == 1         \* ticks of the wall clock in a run
MaxNetEvents == 1   \* relay closes, reconnects and broker connect events in a run
MaxStoreCalls == 3  \* ChatDatabase calls the clients of the store make in a run
MaxShutdowns == 2   \* shutdown() calls in a run
MaxInits == 2       \* initXMTP runs over the restarts of a run
MaxConns == 2       \* connections peers open to the IROH node in a run
MaxPerfSends == 2   \* sendMessage calls in a run that follows protocol_performance

\* ------------------------------------------------------- program constants
maxRetries == 5     \* executeWithRetry's default number of attempts

\* -------------------------------------------------------------- the peers
MyMagnet == "magnet:me"
PeerP == "magnet:peerP"
\* a magnet link with its ed25519pub parameter missing
Garbled == "magnet:garbled"
NoMagnet == ""

\* the identities a process can run as: the magnet link and the secp256k1
\* private key of a UnifiedIdentity
Me == [magnetLink |-> MyMagnet, privateKey |-> "sk:me"]
Identities == { Me, [magnetLink |-> "magnet:other", privateKey |-> "sk:other"] }

\* identity.ts is not part of the sources: decodeIdentity returns the decoded
\* identity, or a falsy value for a link that is missing or cannot be decoded
DecodeIdentity(link) ==
  IF link \in {MyMagnet, PeerP} THEN [ok |-> TRUE, id |-> link]
  ELSE [ok |-> FALSE, id |-> NoMagnet]

\* message-types.ts is not part of the sources: isAcknowledgment tests the type
isAcknowledgment(m) == m.type = "acknowledgment"

\* transports a copy of a message can arrive on (the protocol argument)
Transports == {"nostr", "MQTT"}

\* the messages peers have put on the networks; uuid 2 is an acknowledgment of
\* a message the peer received via MQTT, with the peer's preferences as
\* sendAcknowledgment lists them (here the entries of the two transports);
\* uuid 3 is a message whose fromMagnetLink cannot be decoded
Inbound ==
  { [uuid |-> 3, type |-> "message", fromMagnetLink |-> Garbled, timestamp |-> 1,
     ackOfUuid |-> 0, receivedVia |-> "none", channelPreferences |-> <<>>],
    [uuid |-> 1, type |-> "message", fromMagnetLink |-> PeerP, timestamp |-> 1,
     ackOfUuid |-> 0, receivedVia |-> "none", channelPreferences |-> <<>>],
    [uuid |-> 2, type |-> "acknowledgment", fromMagnetLink |-> PeerP, timestamp |-> 1,
     ackOfUuid |-> 7, receivedVia |-> "MQTT",
     channelPreferences |->
       << [protocol |-> "nostr", preferenceOrder |-> 1, cannotUse |-> FALSE],
          [protocol |-> "MQTT", preferenceOrder |-> 3, cannotUse |-> FALSE] >>] }

InboundUuids == { m.uuid : m \in Inbound }
Envelope(u) == CHOOSE m \in Inbound : m.uuid = u
\* uuids made by crypto.randomUUID() on this side: distinct from every other
FirstLocalUuid == 100

Slots == InboundUuids \X Transports
\* the uuids that arrive in the runs of Spec: the known peer's message and
\* acknowledgment
PeerUuids == {1, 2}
\* the uuids that arrive in the runs of SpecListen: the two messages
ListenUuids == {1, 3}

VARIABLES
  seenMessageUuids,   \* ChatBroadcaster.seenMessageUuids
  messageHandlers,    \* ChatBroadcaster.messageHandlers, in registration order
  inv,                \* per (uuid, transport): the handleIncomingMessage invocation
  arrivals,           \* number of arrivals so far
  stats,              \* per uuid: arrivals, first-seen branches taken, rejections
  messages,           \* table messages: the set of its rows, uuid UNIQUE
  receipts,           \* table message_receipts: per message_uuid, in insertion order
  prefs,              \* table channel_preferences: the set of its rows
  perf,               \* table protocol_performance: the set of its rows
  foreignKeys,        \* whether the SQLite build enforces FOREIGN KEY clauses
  faults,             \* store errors injected so far
  handled,            \* per uuid: the handlers invoked with it, in order
  sent,               \* log of broadcast calls
  nextUuid,           \* next value of crypto.randomUUID()
  now,                \* Date.now()
  options,            \* Broadcaster.options: the enabled flags
  initDone,           \* per driver: "no", "ok" or "failed": outcome of its init
  xmtpClient, wakuNode, irohNode,  \* the client handles (TRUE when set)
  nostrRelays,        \* Broadcaster.nostrRelays: the pool, in push order
  timers,             \* relay URLs with a reconnect scheduled by setTimeout
  mqttClients,        \* Broadcaster.mqttClients, in push order
  brokers,            \* per broker: the state of the client mqtt.connect made
  netEvents,          \* network events so far
  call,               \* the sendMessage / broadcast call in progress
  sends,              \* sendMessage / broadcast calls so far
  ops,                \* per client of the store: its ChatDatabase call in progress
  hist,               \* what the store's callers have committed so far
  subs,               \* URLs of the pooled Relay objects that carry a subscription
  down,               \* the shutdown() call: its position and what it did
  ownIdentity,        \* Broadcaster.identity (this.identity)
  xmtpKeys,           \* the keys XMTPClient.create was handed, one per initXMTP
  irohMessageHandler, \* Broadcaster.irohMessageHandler is set
  conns,              \* per connection the IROH node accepted: its accept callback
  tablesReady,        \* ChatDatabase.initPromise has resolved
  sendBudget          \* sendMessage / broadcast calls the callers make in the run

storeVars == <<messages, receipts, prefs, perf>>
driverVars == <<options, initDone, xmtpClient, wakuNode, irohNode, nostrRelays,
                timers, mqttClients, brokers, netEvents>>
callVars == <<call, sends>>
apiVars == <<ops, hist>>
bootVars == <<irohMessageHandler, conns, tablesReady, sendBudget>>
sessionVars == <<subs, down, ownIdentity, xmtpKeys, bootVars>>
pipeVars == <<seenMessageUuids, messageHandlers, inv, arrivals, stats, handled>>
vars == <<seenMessageUuids, messageHandlers, inv, arrivals, stats, messages, receipts,
          prefs, perf, foreignKeys, faults, handled, sent, nextUuid, now,
          options, initDone, xmtpClient, wakuNode, irohNode, nostrRelays,
          timers, mqttClients, brokers, netEvents, call, sends, ops, hist,
          subs, down, ownIdentity, xmtpKeys,
          irohMessageHandler, conns, tablesReady, sendBudget>>

\* ------------------------------------------------------- the evidence store
\* a nullable column: <<>> is NULL, <<v>> holds v
Null == <<>>
Some(v) == <<v>>
\* JavaScript's `x || null` on a number: 0 becomes NULL
OrNull(v) == IF v = 0 THEN Null ELSE Some(v)

\* a table is the set of its rows
RowsOf(msgs, u) == { r \in msgs : r.uuid = u }
HasMessage(msgs, u) == RowsOf(msgs, u) # {}

\* an insert that replaces the row of the uuid by the new one
InsertOrReplaceMessage(msgs, row) == (msgs \ RowsOf(msgs, row.uuid)) \cup {row}
\* INSERT OR IGNORE INTO messages: uuid is UNIQUE, a second row is ignored
InsertOrIgnoreMessage(msgs, row) ==
  IF HasMessage(msgs, row.uuid) THEN msgs ELSE msgs \cup {row}

\* an UPDATE of the first receipt without its IS NULL clause
UpdateFirstReceiptUnguarded(msgs, u, protocol, at) ==
  { IF r.uuid = u
    THEN [r EXCEPT !.firstReceivedProtocol = Some(protocol), !.firstReceivedAt = Some(at)]
    ELSE r : r \in msgs }
\* UPDATE messages SET first_received_protocol = ?, first_received_at = ?
\* WHERE uuid = ? AND first_received_protocol IS NULL
UpdateFirstReceipt(msgs, u, protocol, at) ==
  { IF r.uuid = u /\ r.firstReceivedProtocol = Null
    THEN [r EXCEPT !.firstReceivedProtocol = Some(protocol), !.firstReceivedAt = Some(at)]
    ELSE r : r \in msgs }

\* INSERT INTO message_receipts: the row is appended
InsertReceipt(rcpts, row) ==
  [rcpts EXCEPT ![row.messageUuid] = Append(@, row)]

\* FOREIGN KEY (message_uuid) REFERENCES messages(uuid): the insert of a
\* receipt is refused when the build enforces foreign keys and no parent exists
ReceiptInsertAllowed(fk, msgs, u) == (~fk) \/ HasMessage(msgs, u)

\* the rows of channel_preferences with the key (identity, protocol)
PreferenceRows(table, identity, protocol) ==
  { r \in table : r.identity = identity /\ r.protocol = protocol }

\* COALESCE(excluded.preference_order, preference_order) without the COALESCE
KeptOrderOverwritten(supplied, stored) == supplied
\* COALESCE(excluded.preference_order, preference_order)
KeptOrder(supplied, stored) == IF supplied # Null THEN supplied ELSE stored

\* INSERT ... ON CONFLICT(identity, protocol) DO UPDATE of channel_preferences;
\* p holds the bound arguments, `|| null` applied
UpsertPreference(table, p) ==
  LET old == PreferenceRows(table, p.identity, p.protocol)
      row == [identity |-> p.identity, protocol |-> p.protocol,
              isWorking |-> p.isWorking,
              lastAckAt |-> p.lastAckAt,
              avgLatencyMs |-> p.avgLatencyMs,
              preferenceOrder |-> p.preferenceOrder,
              cannotUse |-> p.cannotUse]
  IN IF old # {}
     THEN (table \ old) \cup
            { [row EXCEPT !.preferenceOrder = KeptOrder(p.preferenceOrder, r.preferenceOrder)]
              : r \in old }
     ELSE table \cup {row}

\* one attempt of a statement ends ok, with SQLITE_BUSY, or with another error
Outcomes == {"ok", "busy", "error"}

\* a retry loop that retries after whatever error
RetryDecisionEager(outcome, i) ==
  IF outcome = "ok" THEN "return"
  ELSE IF i < maxRetries - 1 THEN "retry"
  ELSE "throw"

\* a retry loop that swallows the error it should rethrow
RetryDecisionSwallowing(outcome, i) ==
  IF outcome = "busy" /\ i < maxRetries - 1 THEN "retry" ELSE "return"

\* executeWithRetry: what the loop does at index i with the attempt's outcome
RetryDecision(outcome, i) ==
  IF outcome = "ok" THEN "return"
  ELSE IF outcome = "busy" /\ i < maxRetries - 1 THEN "retry"
  ELSE "throw"

\* what becomes of a statement that is executed: before initTables has created
\* the tables it fails with an error that is not SQLITE_BUSY
Executed(outcome, ready) == IF outcome = "ok" /\ ~ready THEN "error" ELSE outcome

\* the environment may disturb a store call while the budget lasts; a call it
\* disturbs (at attempt 0) may fail again at each of its later attempts
CanFail(i) == i > 0 \/ faults < MaxFaults
Fault(outcome, i) == IF outcome # "ok" /\ i = 0 THEN faults + 1 ELSE faults


\* ---------------------------------------------------- the fan-out broadcaster
Drivers == <<"xmtp", "nostr", "waku", "mqtt", "iroh">>
DriverSet == {"xmtp", "nostr", "waku", "mqtt", "iroh"}
\* options.nostrRelays and options.mqttBrokers of the runs
RelayUrls == <<"r1", "r2">>
Brokers == {"b1", "b2"}

\* the guard in front of each promises.push(...) of broadcast
DriverLive(d) ==
  CASE d = "xmtp" -> options.xmtpEnabled /\ xmtpClient
    [] d = "nostr" -> options.nostrEnabled /\ Len(nostrRelays) > 0
    [] d = "waku" -> options.wakuEnabled /\ wakuNode
    [] d = "mqtt" -> options.mqttEnabled /\ Len(mqttClients) > 0
    [] d = "iroh" -> options.irohEnabled /\ irohNode

\* the drivers broadcast launches a send on, in the order of the promises
BroadcastTargets == SelectSeq(Drivers, DriverLive)

\* ------------------------------------------------------ the inbound pipeline
NewInvocation == [pc |-> "idle", i |-> 0, k |-> 0, at |-> 0, ack |-> 0]
\* history per uuid: arrivals, first-seen branches taken, and the invocations of
\* either branch that rejected
NoStats == [n |-> 0, firsts |-> 0, firstErrs |-> 0, dupErrs |-> 0]

Settled(s) == inv[s].pc \in {"idle", "done", "failed"}

\* a dedup test that never recognises a uuid
SeenHasNever(seen, u) == FALSE
\* seenMessageUuids.has(message.uuid)
SeenHas(seen, u) == u \in seen
\* a first-seen branch that forgets to record the uuid
MarkSeenForgotten(seen, u) == seen
\* seenMessageUuids.add(message.uuid)
MarkSeen(seen, u) == seen \cup {u}

\* the Message row handleIncomingMessage hands to saveMessage
InboundRow(m, protocol, at) ==
  [uuid |-> m.uuid, fromIdentity |-> m.fromMagnetLink, toIdentity |-> MyMagnet,
   timestamp |-> m.timestamp, isAcknowledgment |-> (m.type = "acknowledgment"),
   firstReceivedProtocol |-> Some(protocol), firstReceivedAt |-> OrNull(at)]

\* the Receipt row of both branches; dup records which branch wrote it
ReceiptRow(m, protocol, at, dup) ==
  [messageUuid |-> m.uuid, protocol |-> protocol, receivedAt |-> at,
   latencyMs |-> at - m.timestamp, dup |-> dup]

\* the Message row sendAcknowledgment stores for the ack it builds
AckRow(m, ackUuid, at) ==
  [uuid |-> ackUuid, fromIdentity |-> MyMagnet, toIdentity |-> m.fromMagnetLink,
   timestamp |-> at, isAcknowledgment |-> TRUE,
   firstReceivedProtocol |-> Null, firstReceivedAt |-> Null]

\* the transport has a listener that hands its events to handleIncomingMessage:
\* for nostr a pooled relay that startNostrListener subscribed
Delivers(p) ==
  p = "nostr" => \E j \in 1..Len(nostrRelays) :
                   nostrRelays[j].connected /\ nostrRelays[j].url \in subs

\* handleIncomingMessage up to its first await: the dedup test, and on the
\* first-seen branch the insertion into seenMessageUuids
Arrive(u, p) ==
  LET s == <<u, p>> IN
  /\ arrivals < MaxArrivals
  /\ Delivers(p)
  /\ Settled(s)
  /\ arrivals' = arrivals + 1
  /\ IF SeenHas(seenMessageUuids, u)
     THEN /\ inv' = [inv EXCEPT ![s] = [@ EXCEPT !.pc = "dupReceipt", !.at = now]]
          /\ stats' = [stats EXCEPT ![u] = [@ EXCEPT !.n = @ + 1]]
          /\ UNCHANGED seenMessageUuids
     ELSE /\ seenMessageUuids' = MarkSeen(seenMessageUuids, u)
          /\ inv' = [inv EXCEPT ![s] = [@ EXCEPT !.pc = "saveMessage", !.at = now]]
          /\ stats' = [stats EXCEPT ![u] = [@ EXCEPT !.n = @ + 1, !.firsts = @ + 1]]
  /\ UNCHANGED <<sessionVars, apiVars, messageHandlers, handled, storeVars, foreignKeys, faults, sent,
                 nextUuid, now, driverVars, callVars>>

\* an invocation rejects: the error leaves handleIncomingMessage
Reject(s) == [inv EXCEPT ![s] = [NewInvocation EXCEPT !.pc = "failed"]]
Rejected(d, u, dup) ==
  IF d # "throw" THEN stats
  ELSE IF dup THEN [stats EXCEPT ![u] = [@ EXCEPT !.dupErrs = @ + 1]]
  ELSE [stats EXCEPT ![u] = [@ EXCEPT !.firstErrs = @ + 1]]
Retry(s, at) == [inv EXCEPT ![s] = [@ EXCEPT !.i = @ + 1, !.at = at]]
Goto(s, pc, at) == [inv EXCEPT ![s] = [NewInvocation EXCEPT !.pc = pc, !.at = at]]

\* await this.db.saveMessage(...) of the first-seen branch, one attempt
SaveInboundMessage(u, p) ==
  LET s == <<u, p>> IN
  /\ inv[s].pc = "saveMessage"
  /\ tablesReady
  /\ \E o \in Outcomes :
       /\ o # "ok" => CanFail(inv[s].i)
       /\ faults' = Fault(o, inv[s].i)
       /\ LET d == RetryDecision(o, inv[s].i) IN
          /\ messages' = IF o = "ok"
                THEN InsertOrIgnoreMessage(messages, InboundRow(Envelope(u), p, inv[s].at))
                ELSE messages
          /\ inv' = CASE d = "return" -> Goto(s, "saveReceipt", inv[s].at)
                      [] d = "retry" -> Retry(s, inv[s].at)
                      [] OTHER -> Reject(s)
          /\ stats' = Rejected(d, u, FALSE)
  /\ UNCHANGED <<sessionVars, apiVars, seenMessageUuids, messageHandlers, arrivals, handled, receipts,
                 prefs, perf, foreignKeys, sent, nextUuid, now, driverVars, callVars>>

\* the receipt's Date.now(): read when the call is made, kept across retries
CallTime(s) == IF inv[s].i = 0 /\ inv[s].pc # "dupReceipt" THEN now ELSE inv[s].at

\* a pipeline that gives up on an acknowledgment once it is stored
AfterReceiptAckFatal(m) == IF isAcknowledgment(m) THEN "failed" ELSE "handlers"
\* where the first-seen branch goes after its receipt
AfterReceipt(m) == IF isAcknowledgment(m) THEN "prefs" ELSE "handlers"

\* await this.db.saveMessageReceipt(...) of either branch, one attempt
SaveReceipt(u, p) ==
  LET s == <<u, p>>
      dup == inv[s].pc = "dupReceipt"
  IN
  /\ inv[s].pc \in {"saveReceipt", "dupReceipt"}
  /\ \E o \in Outcomes :
       /\ o # "ok" => CanFail(inv[s].i)
       /\ faults' = Fault(o, inv[s].i)
       /\ LET eff == IF o = "ok" /\ ~ReceiptInsertAllowed(foreignKeys, messages, u)
                     THEN "error" ELSE Executed(o, tablesReady)
              d == RetryDecision(eff, inv[s].i)
          IN
          /\ receipts' = IF eff = "ok"
                THEN InsertReceipt(receipts, ReceiptRow(Envelope(u), p, CallTime(s), dup))
                ELSE receipts
          /\ inv' = CASE d = "return" ->
                           Goto(s, IF dup THEN "done" ELSE AfterReceipt(Envelope(u)), 0)
                      [] d = "retry" -> Retry(s, CallTime(s))
                      [] OTHER -> Reject(s)
          /\ stats' = Rejected(d, u, dup)
  /\ UNCHANGED <<sessionVars, apiVars, seenMessageUuids, messageHandlers, arrivals, handled, messages,
                 prefs, perf, foreignKeys, sent, nextUuid, now, driverVars, callVars>>


\* the k-th updateChannelPreference call for an inbound acknowledgment: call 0
\* is for the transport named by receivedVia, the others for the stated ones
PreferenceArg(m, k, at) ==
  IF k = 0
  THEN [identity |-> m.fromMagnetLink, protocol |-> m.receivedVia,
        isWorking |-> TRUE, lastAckAt |-> OrNull(at),
        avgLatencyMs |-> OrNull(at - m.timestamp),
        preferenceOrder |-> Null, cannotUse |-> FALSE]
  ELSE LET pref == m.channelPreferences[k] IN
       [identity |-> m.fromMagnetLink, protocol |-> pref.protocol,
        isWorking |-> ~pref.cannotUse, lastAckAt |-> Null, avgLatencyMs |-> Null,
        preferenceOrder |-> OrNull(pref.preferenceOrder),
        cannotUse |-> pref.cannotUse]

\* await this.db.updateChannelPreference(...), one attempt of call number k
UpdatePreferences(u, p) ==
  LET s == <<u, p>>
      m == Envelope(u)
      k == inv[s].k
  IN
  /\ inv[s].pc = "prefs"
  /\ \E o \in Outcomes :
       /\ o # "ok" => CanFail(inv[s].i)
       /\ faults' = Fault(o, inv[s].i)
       /\ LET d == RetryDecision(Executed(o, tablesReady), inv[s].i) IN
          /\ prefs' = IF Executed(o, tablesReady) = "ok"
                THEN UpsertPreference(prefs, PreferenceArg(m, k, CallTime(s)))
                ELSE prefs
          /\ inv' = CASE d = "return" ->
                           IF k < Len(m.channelPreferences)
                           THEN [inv EXCEPT ![s] = [@ EXCEPT !.i = 0, !.k = k + 1, !.at = 0]]
                           ELSE Goto(s, "handlers", 0)
                      [] d = "retry" -> Retry(s, CallTime(s))
                      [] OTHER -> Reject(s)
          /\ stats' = Rejected(d, u, FALSE)
  /\ UNCHANGED <<sessionVars, apiVars, seenMessageUuids, messageHandlers, arrivals, handled, messages,
                 receipts, perf, foreignKeys, sent, nextUuid, now, driverVars, callVars>>

\* a loop that walks the handlers from the last one registered
HandlerAtReversed(handlers, k) == handlers[Len(handlers) - k]
\* for (const handler of this.messageHandlers): the handler of iteration k
HandlerAt(handlers, k) == handlers[k + 1]

\* what the duplicate branch hands to receipt handlers: it stores the receipt
\* and returns, and the class has no onReceipt to register a handler with
DuplicateReceiptEvents(u) == <<>>

\* for (const handler of this.messageHandlers) await handler(message, protocol)
NotifyHandler(u, p) ==
  LET s == <<u, p>> IN
  /\ inv[s].pc = "handlers"
  /\ inv[s].k < Len(messageHandlers)
  /\ handled' = [handled EXCEPT ![u] = Append(@, HandlerAt(messageHandlers, inv[s].k))]
  /\ inv' = [inv EXCEPT ![s] = [@ EXCEPT !.k = @ + 1]]
  /\ UNCHANGED <<sessionVars, apiVars, seenMessageUuids, messageHandlers, arrivals, stats, storeVars, foreignKeys,
                 faults, sent, nextUuid, now, driverVars, callVars>>

\* a pipeline that acknowledges whatever it receives
WantsAcknowledgmentAlways(m) == TRUE
\* if (!isAcknowledgment(message)) await this.sendAcknowledgment(message, protocol)
WantsAcknowledgment(m) == ~isAcknowledgment(m)

\* the handlers are through: an acknowledgment is built for a message, and
\* handleIncomingMessage returns for an acknowledgment
AfterHandlers(u, p) ==
  LET s == <<u, p>> IN
  /\ inv[s].pc = "handlers"
  /\ inv[s].k = Len(messageHandlers)
  /\ IF WantsAcknowledgment(Envelope(u))
     THEN /\ inv' = [inv EXCEPT ![s] = [@ EXCEPT !.pc = "ackSave", !.i = 0, !.k = 0,
                        !.at = now, !.ack = nextUuid]]
          /\ nextUuid' = nextUuid + 1
     ELSE /\ inv' = Goto(s, "done", 0)
          /\ UNCHANGED nextUuid
  /\ UNCHANGED <<sessionVars, apiVars, seenMessageUuids, messageHandlers, arrivals, stats, handled, storeVars,
                 foreignKeys, faults, sent, now, driverVars, callVars>>

\* sendAcknowledgment: await this.db.saveMessage(ack), one attempt
SaveAcknowledgment(u, p) ==
  LET s == <<u, p>> IN
  /\ inv[s].pc = "ackSave"
  /\ tablesReady
  /\ \E o \in Outcomes :
       /\ o # "ok" => CanFail(inv[s].i)
       /\ faults' = Fault(o, inv[s].i)
       /\ LET d == RetryDecision(o, inv[s].i) IN
          /\ messages' = IF o = "ok"
                THEN InsertOrIgnoreMessage(messages, AckRow(Envelope(u), inv[s].ack, inv[s].at))
                ELSE messages
          /\ inv' = CASE d = "return" ->
                           [inv EXCEPT ![s] = [@ EXCEPT !.pc = "ackSend", !.i = 0]]
                      [] d = "retry" -> [inv EXCEPT ![s] = [@ EXCEPT !.i = @ + 1]]
                      [] OTHER -> Reject(s)
          /\ stats' = Rejected(d, u, FALSE)
  /\ UNCHANGED <<sessionVars, apiVars, seenMessageUuids, messageHandlers, arrivals, handled, receipts,
                 prefs, perf, foreignKeys, sent, nextUuid, now, driverVars, callVars>>

\* a broadcast call as the log keeps it: threw is the invalid-recipient error,
\* drivers the sends that were launched
BroadcastRecord(to, uuid, type, ackOfUuid, via) ==
  LET okTo == DecodeIdentity(to).ok IN
  [to |-> to, uuid |-> uuid, type |-> type, ackOfUuid |-> ackOfUuid,
   receivedVia |-> via, threw |-> ~okTo,
   drivers |-> IF okTo THEN BroadcastTargets ELSE <<>>]

\* a sendAcknowledgment whose broadcast is not wrapped in try/catch
AckSendOutcomeUncaught(threw) == IF threw THEN "failed" ELSE "done"
\* try { await this.broadcast(...) } catch (error) { console.error(...) }: how
\* sendAcknowledgment ends when broadcast threw or returned
AckSendOutcome(threw) == "done"

\* sendAcknowledgment: try { await this.broadcast(...) } catch { log }; the
\* vector of driver results broadcast returns is dropped
SendAcknowledgment(u, p) ==
  LET s == <<u, p>>
      m == Envelope(u)
      rec == BroadcastRecord(m.fromMagnetLink, inv[s].ack, "acknowledgment", u, p)
      out == AckSendOutcome(rec.threw)
  IN
  /\ inv[s].pc = "ackSend"
  /\ sent' = Append(sent, rec)
  /\ inv' = [inv EXCEPT ![s] = [NewInvocation EXCEPT !.pc = out]]
  /\ stats' = Rejected(IF out = "failed" THEN "throw" ELSE "return", u, FALSE)
  /\ UNCHANGED <<sessionVars, apiVars, seenMessageUuids, messageHandlers, arrivals, handled, storeVars,
                 foreignKeys, faults, nextUuid, now, driverVars, callVars>>

\* the wall clock advances
Tick ==
  /\ now < 1 + MaxNow
  /\ now' = now + 1
  /\ UNCHANGED <<sessionVars, apiVars, pipeVars, storeVars, foreignKeys, faults, sent, nextUuid,
                 driverVars, callVars>>

\* ------------------------------------------------ the clients of the store
\* the async callers that have a ChatDatabase call in flight at the same time
Callers == {"a", "b"}
NoOp == [pc |-> "idle", req |-> [op |-> "none"], i |-> 0, outs |-> <<>>, n |-> 0, at |-> 0,
         err |-> "none"]

\* the uuids, preference keys and protocols the callers use
StoreUuids == {1, 2}
StoreProtocols == {"nostr", "MQTT"}
PerfProtocols == { <<"Nostr">> }

\* history: per uuid the row of the first saveMessage that was executed and the
\* rows of all the executed ones, per
\* (identity, protocol) the last updateChannelPreference that was executed, per
\* protocol the latencies handed to the executed updateProtocolPerformance calls,
\* per uuid the executed updateMessageFirstReceipt calls with the
\* first_received_protocol they found
NoHistory ==
  [firstSaved |-> [u \in StoreUuids |-> Null],
   savedRows |-> [u \in StoreUuids |-> {}],
   lastPref |-> [k \in StoreProtocols |-> Null],
   firstReceiptUpdates |-> [u \in StoreUuids |-> {}],
   latencies |-> [q \in PerfProtocols |-> <<>>]]

\* --------------------------------------------------------------- the store
EmptyStore ==
  /\ messages = {}
  /\ receipts = [u \in InboundUuids |-> <<>>]
  /\ prefs = {}
  /\ perf = {}

AllEnabled == [xmtpEnabled |-> TRUE, nostrEnabled |-> TRUE, wakuEnabled |-> TRUE,
               mqttEnabled |-> TRUE, irohEnabled |-> TRUE]

NoCall == [pc |-> "none", kind |-> "none", to |-> NoMagnet, uuid |-> 0, at |-> 0,
           i |-> 0, k |-> 0, launched |-> <<>>, start |-> 0, pending |-> {},
           results |-> <<>>, before |-> <<>>, held |-> <<>>, errors |-> <<>>]

\* the connections peers open to the IROH node in a run
Connections == 1..MaxConns
\* a connection nobody has opened yet: read, the payload was read from the
\* stream; handed, the handler was invoked with it; acked, the ACK was written
NoConnection == [pc |-> "none", read |-> FALSE, handed |-> FALSE, acked |-> FALSE]

\* no shutdown() has been called
NoShutdown == [pc |-> "none", calls |-> 0, attempted |-> {}, failed |-> {},
               threw |-> FALSE]

\* the state once the listeners are started: the multiplexer has seen nothing,
\* the tables exist and are empty, the relay, broker and node handles are set
Init ==
  /\ seenMessageUuids = {}
  /\ messageHandlers = <<"ui", "log">>
  /\ inv = [s \in Slots |-> NewInvocation]
  /\ arrivals = 0
  /\ EmptyStore
  /\ foreignKeys \in BOOLEAN
  /\ faults = 0
  /\ handled = [u \in InboundUuids |-> <<>>]
  /\ stats = [u \in InboundUuids |-> NoStats]
  /\ sent = <<>>
  /\ nextUuid = FirstLocalUuid
  /\ now = 1
  /\ options = AllEnabled
  /\ initDone = [d \in DriverSet |->
                   IF d \in {"nostr", "mqtt", "iroh"} THEN "ok" ELSE "failed"]
  /\ xmtpClient = FALSE
  /\ wakuNode = FALSE
  /\ irohNode = TRUE
  /\ nostrRelays = << [url |-> "r1", connected |-> TRUE] >>
  /\ timers = {}
  /\ mqttClients = << "b1" >>
  /\ brokers = [b \in Brokers |-> IF b = "b1" THEN "up" ELSE "ended"]
  /\ netEvents = 0
  /\ call = NoCall
  /\ sends = 0
  /\ ops = [c \in Callers |-> NoOp]
  /\ hist = NoHistory
  /\ subs = {"r1"}
  /\ down = NoShutdown
  /\ ownIdentity = Me
  /\ xmtpKeys = <<>>
  /\ irohMessageHandler = TRUE
  /\ conns = [c \in Connections |-> NoConnection]
  /\ tablesReady = TRUE
  /\ sendBudget = MaxSends

Next ==
  \/ \E u \in PeerUuids, p \in Transports : Arrive(u, p)
  \/ \E u \in PeerUuids, p \in Transports : SaveInboundMessage(u, p)
  \/ \E u \in PeerUuids, p \in Transports : SaveReceipt(u, p)
  \/ \E u \in PeerUuids, p \in Transports : UpdatePreferences(u, p)
  \/ \E u \in PeerUuids, p \in Transports : NotifyHandler(u, p)
  \/ \E u \in PeerUuids, p \in Transports : AfterHandlers(u, p)
  \/ \E u \in PeerUuids, p \in Transports : SaveAcknowledgment(u, p)
  \/ \E u \in PeerUuids, p \in Transports : SendAcknowledgment(u, p)
  \/ Tick

Spec == Init /\ [][Next]_vars


\* ------------------------------------------------- the broadcaster's drivers
AllDisabled == [xmtpEnabled |-> FALSE, nostrEnabled |-> FALSE, wakuEnabled |-> FALSE,
                mqttEnabled |-> FALSE, irohEnabled |-> FALSE]
\* the option sets of the runs: the two pooled drivers, the three
\* single-handle drivers, none
OptionChoices ==
  { [AllDisabled EXCEPT !.nostrEnabled = TRUE, !.mqttEnabled = TRUE],
    [AllEnabled EXCEPT !.nostrEnabled = FALSE, !.mqttEnabled = FALSE],
    AllDisabled }

Initialized == \A d \in DriverSet : initDone[d] # "no"

\* how one driver's init ends: not run, client created, or failure logged
InitOutcome(enabled, ok) ==
  IF ~enabled THEN "disabled" ELSE IF ok THEN "ok" ELSE "failed"

\* connectNostrRelay for each configured URL in turn: the reachable ones are
\* pushed on the pool
PoolAfterInit(reach) ==
  LET urls == SelectSeq(RelayUrls, LAMBDA r : r \in reach)
  IN [j \in 1..Len(urls) |-> [url |-> urls[j], connected |-> TRUE]]

\* initMQTT: a broker's client is pushed by its 'connect' event; an 'error'
\* rejects the promise and leaves the client to reconnect by itself; the 10 s
\* timeout ends the client
ClientsAfterInit(how) ==
  LET up == { b \in Brokers : how[b] = "connect" }
  IN (IF "b1" \in up THEN << "b1" >> ELSE <<>>) \o (IF "b2" \in up THEN << "b2" >> ELSE <<>>)
BrokerAfterInit(h) ==
  CASE h = "connect" -> "up" [] h = "error" -> "down" [] OTHER -> "ended"

\* identity.ts is not part of the sources: getEthereumAccount derives the
\* account, and its address, from the secp256k1 private key
EthereumAddress(id) == <<"address", id.privateKey>>

\* createHash('sha256').update(x).digest(): equal inputs have equal digests
Sha256(x) == <<"sha256", x>>

\* `xmtp-encryption-${account.address}-${this.identity.secp256k1.privateKey}`
KeyMaterial(id) == <<"xmtp-encryption", EthereumAddress(id), id.privateKey>>

\* a key that is salted with the time of the initialization
DbEncryptionKeySalted(id) == Sha256(<<KeyMaterial(id), now>>)
\* the dbEncryptionKey initXMTP hands to XMTPClient.create
DbEncryptionKey(id) == Sha256(KeyMaterial(id))

\* initialize(): every enabled driver's init runs, Promise.allSettled awaits them
Initialize ==
  /\ \A d \in DriverSet : initDone[d] = "no"
  /\ \E x \in BOOLEAN, w \in BOOLEAN, ir \in BOOLEAN, reach \in SUBSET {"r1", "r2"},
        how \in [Brokers -> {"connect", "error", "timeout"}] :
       /\ xmtpClient' = (options.xmtpEnabled /\ x)
       /\ xmtpKeys' = IF options.xmtpEnabled
                      THEN Append(xmtpKeys, [identity |-> ownIdentity,
                                             key |-> DbEncryptionKey(ownIdentity)])
                      ELSE xmtpKeys
       /\ wakuNode' = (options.wakuEnabled /\ w)
       /\ irohNode' = (options.irohEnabled /\ ir)
       /\ nostrRelays' = IF options.nostrEnabled THEN PoolAfterInit(reach) ELSE <<>>
       /\ mqttClients' = IF options.mqttEnabled THEN ClientsAfterInit(how) ELSE <<>>
       /\ brokers' = [b \in Brokers |->
                        IF options.mqttEnabled THEN BrokerAfterInit(how[b]) ELSE "none"]
       /\ initDone' =
            [d \in DriverSet |->
               CASE d = "xmtp" -> InitOutcome(options.xmtpEnabled, x)
                 [] d = "waku" -> InitOutcome(options.wakuEnabled, w)
                 [] d = "iroh" -> InitOutcome(options.irohEnabled, ir)
                 [] d = "nostr" -> InitOutcome(options.nostrEnabled, reach # {})
                 [] d = "mqtt" -> InitOutcome(options.mqttEnabled,
                                              \E b \in Brokers : how[b] = "connect")]
  /\ UNCHANGED <<subs, down, ownIdentity, bootVars, apiVars, pipeVars, storeVars, foreignKeys, faults, sent, nextUuid, now,
                 options, timers, netEvents, callVars>>

\* the URLs of the relays in the pool
PooledUrls(pool) == { pool[j].url : j \in 1..Len(pool) }

\* this.nostrRelays.splice(index, 1)
RemoveAt(seq, j) == [x \in 1..(Len(seq) - 1) |-> IF x < j THEN seq[x] ELSE seq[x + 1]]

\* relay.onclose: the relay leaves the pool and a reconnect is scheduled; the
\* subscriptions of the closed Relay object go with it
RelayClose(j) ==
  /\ Initialized
  /\ netEvents < MaxNetEvents
  /\ j \in 1..Len(nostrRelays)
  /\ nostrRelays' = RemoveAt(nostrRelays, j)
  /\ timers' = timers \cup {nostrRelays[j].url}
  /\ netEvents' = netEvents + 1
  /\ subs' = subs \ {nostrRelays[j].url}
  /\ UNCHANGED <<down, ownIdentity, xmtpKeys, bootVars, apiVars, pipeVars, storeVars, foreignKeys, faults, sent, nextUuid, now,
                 options, initDone, xmtpClient, wakuNode, irohNode, mqttClients,
                 brokers, callVars>>

\* reconnectNostrRelay: the test in front of the reconnect
AlreadyConnected(pool, url) ==
  \E j \in 1..Len(pool) : pool[j].url = url /\ pool[j].connected

\* the timer of a closed relay fires: reconnectNostrRelay, then
\* connectNostrRelay, whose failure is logged and not retried
ReconnectFires(url) ==
  /\ url \in timers
  /\ timers' = timers \ {url}
  /\ \E ok \in BOOLEAN :
       nostrRelays' = IF ~AlreadyConnected(nostrRelays, url) /\ ok
                      THEN Append(nostrRelays, [url |-> url, connected |-> TRUE])
                      ELSE nostrRelays
  /\ UNCHANGED <<sessionVars, apiVars, pipeVars, storeVars, foreignKeys, faults, sent, nextUuid, now,
                 options, initDone, xmtpClient, wakuNode, irohNode, mqttClients,
                 brokers, netEvents, callVars>>

\* a broker connection is lost: the client stays in mqttClients and reconnects
\* by itself (reconnectPeriod)
BrokerDrop(b) ==
  /\ Initialized
  /\ netEvents < MaxNetEvents
  /\ brokers[b] = "up"
  /\ brokers' = [brokers EXCEPT ![b] = "down"]
  /\ netEvents' = netEvents + 1
  /\ UNCHANGED <<sessionVars, apiVars, pipeVars, storeVars, foreignKeys, faults, sent, nextUuid, now,
                 options, initDone, xmtpClient, wakuNode, irohNode, nostrRelays,
                 timers, mqttClients, callVars>>

\* client.on('connect', ...) of initMQTT fires at every (re)connection
BrokerConnect(b) ==
  /\ Initialized
  /\ brokers[b] = "down"
  /\ brokers' = [brokers EXCEPT ![b] = "up"]
  /\ mqttClients' = Append(mqttClients, b)
  /\ UNCHANGED <<sessionVars, apiVars, pipeVars, storeVars, foreignKeys, faults, sent, nextUuid, now,
                 options, initDone, xmtpClient, wakuNode, irohNode, nostrRelays,
                 timers, netEvents, callVars>>


\* ------------------------------------------------------ broadcast, sendMessage
\* the rows of protocol_performance of a protocol
PerformanceRows(table, protocol) == { r \in table : r.protocol = protocol }

\* an optional number argument under `x || null`: undefined and 0 become NULL
OptOrNull(opt) == IF opt = Null THEN Null ELSE OrNull(opt[1])

\* total_sent left as it is on a conflict
NextTotalSentStuck(totalSent) == totalSent
\* total_sent = total_sent + 1
NextTotalSent(totalSent) == totalSent + 1

\* avg_latency_ms = CASE WHEN ? IS NOT NULL THEN CASE WHEN avg_latency_ms IS
\* NULL THEN ? ELSE (avg_latency_ms + ?) / 2 END ELSE avg_latency_ms END
NextAverage(stored, lat) ==
  IF lat # Null
  THEN (IF stored = Null THEN lat ELSE Some((stored[1] + lat[1]) \div 2))
  ELSE stored

\* INSERT ... ON CONFLICT(protocol) DO UPDATE of protocol_performance;
\* latencyMs is the optional argument: Null when the caller leaves it out
UpsertPerformance(table, protocol, acked, latencyMs, at) ==
  LET ackedInt == IF acked THEN 1 ELSE 0
      lat == OptOrNull(latencyMs)
      old == PerformanceRows(table, protocol)
  IN IF old # {}
     THEN (table \ old) \cup
            { [protocol |-> protocol,
               totalSent |-> NextTotalSent(r.totalSent),
               totalAcked |-> r.totalAcked + ackedInt,
               avgLatencyMs |-> NextAverage(r.avgLatencyMs, lat),
               lastUsedAt |-> at] : r \in old }
     ELSE table \cup { [protocol |-> protocol, totalSent |-> 1, totalAcked |-> ackedInt,
                        avgLatencyMs |-> lat, lastUsedAt |-> at] }

\* the row sendMessage saves for the outgoing message
OutgoingRow(uuid, to, at) ==
  [uuid |-> uuid, fromIdentity |-> MyMagnet, toIdentity |-> to,
   timestamp |-> at, isAcknowledgment |-> FALSE,
   firstReceivedProtocol |-> Null, firstReceivedAt |-> Null]

\* the recipients the callers pass
Recipients == {PeerP, Garbled, NoMagnet}

CallIdle == call.pc \in {"none", "returned", "threw"}

\* a caller invokes broadcast(recipientMagnetLink, message)
StartBroadcast(to) ==
  /\ Initialized
  /\ CallIdle
  /\ sends < sendBudget
  /\ sends' = sends + 1
  /\ call' = [NoCall EXCEPT !.pc = "broadcast", !.kind = "broadcast", !.to = to,
                            !.before = <<messages, perf>>]
  /\ UNCHANGED <<sessionVars, apiVars, pipeVars, storeVars, foreignKeys, faults, sent, nextUuid, now,
                 driverVars>>

\* sendMessage up to its first await: the message gets its uuid and timestamp
StartSendMessage(to) ==
  /\ Initialized
  /\ CallIdle
  /\ sends < sendBudget
  /\ sends' = sends + 1
  /\ nextUuid' = nextUuid + 1
  /\ call' = [NoCall EXCEPT !.pc = "saveMessage", !.kind = "sendMessage", !.to = to,
                            !.uuid = nextUuid, !.at = now,
                            !.before = <<messages, perf>>]
  /\ UNCHANGED <<sessionVars, apiVars, pipeVars, storeVars, foreignKeys, faults, sent, now, driverVars>>

\* a rejected call: the error reaches the caller
Thrown(error) == [call EXCEPT !.pc = "threw", !.errors = Append(@, error)]

\* await this.db.saveMessage(...) of sendMessage, one attempt
SaveOutgoing ==
  /\ call.pc = "saveMessage"
  /\ tablesReady
  /\ \E o \in Outcomes :
       /\ o # "ok" => CanFail(call.i)
       /\ faults' = Fault(o, call.i)
       /\ LET d == RetryDecision(o, call.i) IN
          /\ messages' = IF o = "ok"
                THEN InsertOrIgnoreMessage(messages, OutgoingRow(call.uuid, call.to, call.at))
                ELSE messages
          /\ call' = CASE d = "return" -> [call EXCEPT !.pc = "broadcast", !.i = 0]
                       [] d = "retry" -> [call EXCEPT !.i = @ + 1]
                       [] OTHER -> Thrown("store")
  /\ UNCHANGED <<sessionVars, apiVars, pipeVars, receipts, prefs, perf, foreignKeys, sent, nextUuid, now,
                 driverVars, sends>>

\* if (!recipient) throw new Error('Invalid recipient magnet link')
RecipientRejectedNever(recipient) == FALSE
RecipientRejected(recipient) == ~recipient.ok

\* the handles broadcast tests, as they are when it runs
Handles ==
  [xmtpClient |-> xmtpClient, relays |-> Len(nostrRelays), wakuNode |-> wakuNode,
   clients |-> Len(mqttClients), irohNode |-> irohNode]

\* broadcast up to its await: the recipient is decoded, then one send is
\* started per live driver
BroadcastStep ==
  /\ call.pc = "broadcast"
  /\ IF RecipientRejected(DecodeIdentity(call.to))
     THEN /\ call' = Thrown("Invalid recipient magnet link")
          /\ sent' = sent
     ELSE /\ call' = [call EXCEPT !.pc = "sending", !.launched = BroadcastTargets,
                                  !.start = now, !.held = Handles,
                                  !.pending = 1..Len(BroadcastTargets)]
          /\ sent' = Append(sent, [to |-> call.to, uuid |-> call.uuid, type |-> "message",
                                   ackOfUuid |-> 0, receivedVia |-> "", threw |-> FALSE,
                                   drivers |-> BroadcastTargets])
  /\ UNCHANGED <<sessionVars, apiVars, pipeVars, storeVars, foreignKeys, faults, nextUuid, now,
                 driverVars, sends>>

\* the protocol field of a driver's result
ProtocolLabel(d, ok, k) ==
  CASE d = "xmtp" -> <<"XMTP V3">>
    [] d = "nostr" -> IF ok THEN <<"Nostr", Len(nostrRelays)>> ELSE <<"Nostr">>
    [] d = "waku" -> <<"Waku">>
    [] d = "mqtt" -> <<"MQTT", k, Len(mqttClients)>>
    [] d = "iroh" -> <<"IROH">>

\* latencyMs: Date.now() - startTime
Latency(startTime, end) == end - startTime

\* the settled promises of Promise.allSettled, by position
Settle(settled, j, result) ==
  [x \in (DOMAIN settled) \cup {j} |-> IF x = j THEN result ELSE settled[x]]

\* identity.ts is not part of the sources: getIrohKeys derives the node id
\* from the identity, different identities having different node ids
IrohNodeId(id) == <<"iroh", id>>

\* a sendViaIROH without the test for the own node id
IrohSelfSendUnchecked(recipientNode, ownNode) == FALSE
\* if (irohKeys.nodeId === myIrohKeys.nodeId) throw 'Cannot send IROH message to self'
IrohSelfSend(recipientNode, ownNode) == recipientNode = ownNode

\* this.nostrRelays.filter(relay => relay.connected): the relays sendViaNostr
\* publishes to
PublishTargets(pool) == { pool[x].url : x \in { y \in 1..Len(pool) : pool[y].connected } }

\* a sendViaNostr that awaits its publishes with Promise.all
NostrSuccessAll(published, accepted) == accepted = published
\* successCount === 0 throws 'Failed to publish to any Nostr relays'
NostrSuccess(published, accepted) == accepted # {}

\* a sendVia* promise settles: every error is caught and becomes a result.
\* acc: the relays whose publish was fulfilled; dialed: endpoint.connect was
\* reached, which is past the test for the own node id
DriverSettle(j) ==
  /\ call.pc = "sending"
  /\ j \in call.pending
  /\ LET d == call.launched[j]
         self == IrohSelfSend(IrohNodeId(DecodeIdentity(call.to).id),
                              IrohNodeId(ownIdentity.magnetLink))
     IN
     \E ok \in BOOLEAN, k \in 0..Len(mqttClients) :
       LET published == IF d = "nostr" THEN PublishTargets(nostrRelays) ELSE {}
           dial == d = "iroh" /\ ~self
       IN
       \E acc \in SUBSET published :
       /\ d = "mqtt" => (ok <=> k > 0)
       /\ d # "mqtt" => k = 0
       /\ d = "nostr" => (ok <=> NostrSuccess(published, acc))
       /\ (d = "iroh" /\ self) => ~ok
       /\ call' = [call EXCEPT
                     !.pending = @ \ {j},
                     !.results = Settle(@, j, [driver |-> d,
                                               protocol |-> ProtocolLabel(d, ok, k),
                                               success |-> ok,
                                               latencyMs |-> Latency(call.start, now),
                                               error |-> IF ok THEN "none"
                                                         ELSE IF d = "iroh" /\ self THEN "self"
                                                         ELSE "failed",
                                               pool |-> IF d = "nostr" THEN nostrRelays ELSE <<>>,
                                               published |-> published,
                                               accepted |-> acc,
                                               dialed |-> dial])]
  /\ UNCHANGED <<sessionVars, apiVars, pipeVars, storeVars, foreignKeys, faults, sent, nextUuid, now,
                 driverVars, sends>>

\* a broadcast that also waits for an acknowledgment from the recipient
ReadyToReturnAcknowledged(pending, acknowledged) == pending = {} /\ acknowledged
\* await Promise.allSettled(promises): broadcast goes on when every send it
\* launched has settled, whether or not an acknowledgment has come in
ReadyToReturn(pending, acknowledged) == pending = {}

\* Promise.allSettled resolves and broadcast returns its vector
BroadcastReturn ==
  /\ call.pc = "sending"
  /\ ReadyToReturn(call.pending, \E u \in seenMessageUuids : isAcknowledgment(Envelope(u)))
  /\ LET vector == [j \in 1..Len(call.launched) |-> call.results[j]]
     IN call' = [call EXCEPT !.results = vector,
                             !.pc = IF call.kind = "sendMessage" /\ Len(vector) > 0
                                    THEN "perf" ELSE "returned",
                             !.k = 1]
  /\ UNCHANGED <<sessionVars, apiVars, pipeVars, storeVars, foreignKeys, faults, sent, nextUuid, now,
                 driverVars, sends>>

\* sendMessage: await this.db.updateProtocolPerformance(...) per result
UpdatePerformance ==
  /\ call.pc = "perf"
  /\ \E o \in Outcomes :
       /\ o # "ok" => CanFail(call.i)
       /\ faults' = Fault(o, call.i)
       /\ LET d == RetryDecision(Executed(o, tablesReady), call.i)
              r == call.results[call.k]
              at == IF call.i = 0 THEN now ELSE call.at
          IN
          /\ perf' = IF Executed(o, tablesReady) = "ok"
                THEN UpsertPerformance(perf, r.protocol, r.success, Some(r.latencyMs), at)
                ELSE perf
          /\ call' = CASE d = "return" ->
                            [call EXCEPT !.k = @ + 1, !.i = 0,
                                         !.pc = IF call.k = Len(call.results)
                                                THEN "returned" ELSE "perf"]
                       [] d = "retry" -> [call EXCEPT !.i = @ + 1, !.at = at]
                       [] OTHER -> Thrown("store")
  /\ UNCHANGED <<sessionVars, apiVars, pipeVars, messages, receipts, prefs, foreignKeys, sent, nextUuid, now,
                 driverVars, sends>>

InitSend ==
  /\ seenMessageUuids = {}
  /\ messageHandlers = <<>>
  /\ inv = [s \in Slots |-> NewInvocation]
  /\ arrivals = 0
  /\ EmptyStore
  /\ foreignKeys = TRUE
  /\ faults = 0
  /\ handled = [u \in InboundUuids |-> <<>>]
  /\ stats = [u \in InboundUuids |-> NoStats]
  /\ sent = <<>>
  /\ nextUuid = FirstLocalUuid
  /\ now = 1
  /\ options \in OptionChoices
  /\ initDone = [d \in DriverSet |-> "no"]
  /\ xmtpClient = FALSE
  /\ wakuNode = FALSE
  /\ irohNode = FALSE
  /\ nostrRelays = <<>>
  /\ timers = {}
  /\ mqttClients = <<>>
  /\ brokers = [b \in Brokers |-> "none"]
  /\ netEvents = 0
  /\ call = NoCall
  /\ sends = 0
  /\ ops = [c \in Callers |-> NoOp]
  /\ hist = NoHistory
  /\ subs = {}
  /\ down = NoShutdown
  /\ ownIdentity = Me
  /\ xmtpKeys = <<>>
  /\ irohMessageHandler = FALSE
  /\ conns = [c \in Connections |-> NoConnection]
  /\ tablesReady = TRUE
  /\ sendBudget = MaxSends

NextSend ==
  \/ Initialize
  \/ \E j \in 1..Len(RelayUrls) : RelayClose(j)
  \/ \E url \in {"r1", "r2"} : ReconnectFires(url)
  \/ \E b \in Brokers : BrokerDrop(b)
  \/ \E b \in Brokers : BrokerConnect(b)
  \/ \E to \in Recipients : StartBroadcast(to)
  \/ \E to \in Recipients : StartSendMessage(to)
  \/ SaveOutgoing
  \/ BroadcastStep
  \/ \E j \in 1..Len(Drivers) : DriverSettle(j)
  \/ BroadcastReturn
  \/ UpdatePerformance
  \/ Tick

SpecSend == InitSend /\ [][NextSend]_vars

\* ------------------------------------------- sendMessage after sendMessage
\* a session in which the callers send more than once, with the two pooled
\* drivers enabled
InitPerf ==
  /\ seenMessageUuids = {}
  /\ messageHandlers = <<>>
  /\ inv = [s \in Slots |-> NewInvocation]
  /\ arrivals = 0
  /\ EmptyStore
  /\ foreignKeys = TRUE
  /\ faults = 0
  /\ handled = [u \in InboundUuids |-> <<>>]
  /\ stats = [u \in InboundUuids |-> NoStats]
  /\ sent = <<>>
  /\ nextUuid = FirstLocalUuid
  /\ now = 1
  /\ options = [AllDisabled EXCEPT !.nostrEnabled = TRUE, !.mqttEnabled = TRUE]
  /\ initDone = [d \in DriverSet |-> "no"]
  /\ xmtpClient = FALSE
  /\ wakuNode = FALSE
  /\ irohNode = FALSE
  /\ nostrRelays = <<>>
  /\ timers = {}
  /\ mqttClients = <<>>
  /\ brokers = [b \in Brokers |-> "none"]
  /\ netEvents = 0
  /\ call = NoCall
  /\ sends = 0
  /\ ops = [c \in Callers |-> NoOp]
  /\ hist = NoHistory
  /\ subs = {}
  /\ down = NoShutdown
  /\ ownIdentity = Me
  /\ xmtpKeys = <<>>
  /\ irohMessageHandler = FALSE
  /\ conns = [c \in Connections |-> NoConnection]
  /\ tablesReady = TRUE
  /\ sendBudget = MaxPerfSends

NextPerf ==
  \/ Initialize
  \/ StartSendMessage(PeerP)
  \/ SaveOutgoing
  \/ BroadcastStep
  \/ \E j \in 1..Len(Drivers) : DriverSettle(j)
  \/ BroadcastReturn
  \/ UpdatePerformance

SpecPerf == InitPerf /\ [][NextPerf]_vars

\* ------------------------------------------------------------------ shutdown
\* the stages of shutdown(), in the order of its body: what follows each
StageAfter(stage) ==
  CASE stage = "waku" -> "nostr" [] stage = "nostr" -> "mqtt"
    [] stage = "mqtt" -> "iroh" [] OTHER -> "returned"

\* the guard in front of each stage: the handle it works on
StageLive(stage) ==
  CASE stage = "waku" -> wakuNode
    [] stage = "nostr" -> Len(nostrRelays) > 0
    [] stage = "mqtt" -> Len(mqttClients) > 0
    [] OTHER -> irohNode

\* try { await ...stop() } catch (error) { this.logger.warn(...) }: shutdown
\* goes on with the next stage whether or not the stage raised
ShutdownAfter(stage, raised) == StageAfter(stage)

\* a caller invokes shutdown()
ShutdownCall ==
  /\ Initialized
  /\ down.pc \in {"none", "returned", "threw"}
  /\ down.calls < MaxShutdowns
  /\ down' = [NoShutdown EXCEPT !.pc = "waku", !.calls = down.calls + 1]
  /\ UNCHANGED <<subs, ownIdentity, xmtpKeys, bootVars, apiVars, pipeVars, storeVars, foreignKeys,
                 faults, sent, nextUuid, now, driverVars, callVars>>

\* one stage of shutdown(): wakuNode.stop(), relay.close() on each pooled
\* relay (a close that throws is caught per relay and leaves the relay as it
\* is), client.end() on each client under Promise.allSettled,
\* irohNode.node.shutdown().  No handle is cleared.
ShutdownStage ==
  LET stage == down.pc IN
  /\ stage \in {"waku", "nostr", "mqtt", "iroh"}
  /\ \E raised \in BOOLEAN, kept \in SUBSET PooledUrls(nostrRelays) :
       /\ raised => (StageLive(stage) /\ stage \in {"waku", "iroh"})
       /\ stage # "nostr" => kept = {}
       /\ nostrRelays' =
            IF stage = "nostr"
            THEN [j \in 1..Len(nostrRelays) |->
                    [nostrRelays[j] EXCEPT !.connected = @ /\ nostrRelays[j].url \in kept]]
            ELSE nostrRelays
       /\ brokers' =
            IF stage = "mqtt"
            THEN [b \in Brokers |->
                    IF \E j \in 1..Len(mqttClients) : mqttClients[j] = b
                    THEN "ended" ELSE brokers[b]]
            ELSE brokers
       /\ down' = [down EXCEPT
                     !.pc = ShutdownAfter(stage, raised),
                     !.attempted = IF StageLive(stage) THEN @ \cup {stage} ELSE @,
                     !.failed = IF raised THEN @ \cup {stage} ELSE @,
                     !.threw = ShutdownAfter(stage, raised) = "threw"]
  /\ UNCHANGED <<subs, ownIdentity, xmtpKeys, bootVars, apiVars, pipeVars, storeVars, foreignKeys,
                 faults, sent, nextUuid, now, options, initDone, xmtpClient, wakuNode,
                 irohNode, timers, mqttClients, netEvents, callVars>>

\* ------------------------------------------------- the drivers of a session
\* the recipients of the broadcasts of these runs: a peer, and the sender
DriverRecipients == {PeerP, MyMagnet}

NextDrivers ==
  \/ Initialize
  \/ \E j \in 1..Len(RelayUrls) : RelayClose(j)
  \/ \E url \in {"r1", "r2"} : ReconnectFires(url)
  \/ \E to \in DriverRecipients : StartBroadcast(to)
  \/ BroadcastStep
  \/ \E j \in 1..Len(Drivers) : DriverSettle(j)
  \/ BroadcastReturn
  \/ ShutdownCall
  \/ ShutdownStage
  \/ Tick

SpecDrivers == InitSend /\ [][NextDrivers]_vars

\* --------------------------------------------------- broadcast to its end
NextLive ==
  \/ Initialize
  \/ \E to \in DriverRecipients : StartBroadcast(to)
  \/ BroadcastStep
  \/ \E j \in 1..Len(Drivers) : DriverSettle(j)
  \/ BroadcastReturn

\* the event loop runs every continuation that is ready (broadcast's body, the
\* resolution of Promise.allSettled), and every send that was launched settles
\* in the end
Fairness ==
  /\ WF_vars(BroadcastStep)
  /\ \A j \in 1..Len(Drivers) : WF_vars(DriverSettle(j))
  /\ WF_vars(BroadcastReturn)

SpecLive == InitSend /\ [][NextLive]_vars /\ Fairness

\* ------------------------------------------------------------------ restarts
\* the process ends and is started again, as the same or as another identity:
\* what it held in memory is gone, the store and the clock go on
Restart ==
  /\ Initialized
  /\ Len(xmtpKeys) < MaxInits
  /\ ownIdentity' \in Identities
  /\ seenMessageUuids' = {}
  /\ inv' = [s \in Slots |-> NewInvocation]
  /\ initDone' = [d \in DriverSet |-> "no"]
  /\ xmtpClient' = FALSE
  /\ wakuNode' = FALSE
  /\ irohNode' = FALSE
  /\ nostrRelays' = <<>>
  /\ timers' = {}
  /\ mqttClients' = <<>>
  /\ brokers' = [b \in Brokers |-> "none"]
  /\ subs' = {}
  /\ down' = NoShutdown
  /\ call' = NoCall
  /\ irohMessageHandler' = FALSE
  /\ conns' = [c \in Connections |-> NoConnection]
  /\ UNCHANGED <<xmtpKeys, tablesReady, sendBudget, apiVars, messageHandlers, arrivals, stats, handled, storeVars,
                 foreignKeys, faults, sent, nextUuid, now, options, netEvents, sends>>

NextRestart ==
  \/ Initialize
  \/ Restart
  \/ ShutdownCall
  \/ ShutdownStage
  \/ Tick

SpecRestart == InitSend /\ [][NextRestart]_vars

\* --------------------------------------- the listeners under network events
\* messages arrive while relays close and reconnect
NextListen ==
  \/ \E u \in ListenUuids, p \in Transports : Arrive(u, p)
  \/ \E u \in ListenUuids, p \in Transports : SaveInboundMessage(u, p)
  \/ \E u \in ListenUuids, p \in Transports : SaveReceipt(u, p)
  \/ \E u \in ListenUuids, p \in Transports : NotifyHandler(u, p)
  \/ \E u \in ListenUuids, p \in Transports : AfterHandlers(u, p)
  \/ \E u \in ListenUuids, p \in Transports : SaveAcknowledgment(u, p)
  \/ \E u \in ListenUuids, p \in Transports : SendAcknowledgment(u, p)
  \/ \E j \in 1..Len(RelayUrls) : RelayClose(j)
  \/ \E url \in {"r1", "r2"} : ReconnectFires(url)
  \/ Tick

\* the listeners are started as in Init, on a build without foreign keys
InitListen == Init /\ ~foreignKeys

SpecListen == InitListen /\ [][NextListen]_vars



\* ------------------------------------------- the store right after `new`
\* initTables() is through: this.initPromise resolves
InitTables ==
  /\ ~tablesReady
  /\ tablesReady' = TRUE
  /\ UNCHANGED <<subs, down, ownIdentity, xmtpKeys, irohMessageHandler, conns, sendBudget,
                 apiVars, pipeVars, storeVars, foreignKeys, faults, sent, nextUuid, now,
                 driverVars, callVars>>

\* the listeners are started as in Init while the initTables() that the
\* constructor of the ChatDatabase started is still running
InitBoot ==
  /\ seenMessageUuids = {}
  /\ messageHandlers = <<"ui", "log">>
  /\ inv = [s \in Slots |-> NewInvocation]
  /\ arrivals = 0
  /\ EmptyStore
  /\ foreignKeys = FALSE
  /\ faults = 0
  /\ handled = [u \in InboundUuids |-> <<>>]
  /\ stats = [u \in InboundUuids |-> NoStats]
  /\ sent = <<>>
  /\ nextUuid = FirstLocalUuid
  /\ now = 1
  /\ options = AllEnabled
  /\ initDone = [d \in DriverSet |->
                   IF d \in {"nostr", "mqtt", "iroh"} THEN "ok" ELSE "failed"]
  /\ xmtpClient = FALSE
  /\ wakuNode = FALSE
  /\ irohNode = TRUE
  /\ nostrRelays = << [url |-> "r1", connected |-> TRUE] >>
  /\ timers = {}
  /\ mqttClients = << "b1" >>
  /\ brokers = [b \in Brokers |-> IF b = "b1" THEN "up" ELSE "ended"]
  /\ netEvents = 0
  /\ call = NoCall
  /\ sends = 0
  /\ ops = [c \in Callers |-> NoOp]
  /\ hist = NoHistory
  /\ subs = {"r1"}
  /\ down = NoShutdown
  /\ ownIdentity = Me
  /\ xmtpKeys = <<>>
  /\ irohMessageHandler = TRUE
  /\ conns = [c \in Connections |-> NoConnection]
  /\ tablesReady = FALSE
  /\ sendBudget = MaxSends

NextBoot ==
  \/ InitTables
  \/ \E u \in PeerUuids, p \in Transports : Arrive(u, p)
  \/ \E u \in PeerUuids, p \in Transports : SaveInboundMessage(u, p)
  \/ \E u \in PeerUuids, p \in Transports : SaveReceipt(u, p)
  \/ \E u \in PeerUuids, p \in Transports : UpdatePreferences(u, p)
  \/ \E u \in PeerUuids, p \in Transports : NotifyHandler(u, p)
  \/ \E u \in PeerUuids, p \in Transports : AfterHandlers(u, p)
  \/ \E u \in PeerUuids, p \in Transports : SaveAcknowledgment(u, p)
  \/ \E u \in PeerUuids, p \in Transports : SendAcknowledgment(u, p)
  \/ Tick

SpecBoot == InitBoot /\ [][NextBoot]_vars

\* ---------------------------------------------------- the IROH listener
\* startListening(): the start*Listener methods in turn; startNostrListener
\* subscribes the relays that are in the pool, startIROHListener sets
\* irohMessageHandler
StartListening ==
  /\ Initialized
  /\ ~irohMessageHandler
  /\ subs' = PooledUrls(nostrRelays)
  /\ irohMessageHandler' = TRUE
  /\ UNCHANGED <<down, ownIdentity, xmtpKeys, conns, tablesReady, sendBudget, apiVars,
                 pipeVars, storeVars, foreignKeys, faults, sent, nextUuid, now,
                 driverVars, callVars>>

\* the node calls accept(err, conn) of the messaging protocol: with an error
\* the callback returns, else it awaits acceptBi and readToEnd
IrohAccept(c) ==
  /\ irohNode
  /\ conns[c].pc = "none"
  /\ \E err \in BOOLEAN :
       conns' = [conns EXCEPT ![c].pc = IF err THEN "closed" ELSE "reading"]
  /\ UNCHANGED <<subs, down, ownIdentity, xmtpKeys, irohMessageHandler, tablesReady,
                 sendBudget, apiVars, pipeVars, storeVars, foreignKeys, faults, sent,
                 nextUuid, now, driverVars, callVars>>

\* what the accept callback does with the payload it read: the handler is
\* invoked if it is set, and the callback goes on to the ACK if it is not
AfterRead(handlerSet) == IF handlerSet THEN "handler" ELSE "ack"

\* readToEnd resolves with the payload, or the stream fails and the catch logs
IrohRead(c) ==
  /\ conns[c].pc = "reading"
  /\ \E ok \in BOOLEAN :
       conns' = [conns EXCEPT ![c] =
                   IF ok
                   THEN [@ EXCEPT !.pc = AfterRead(irohMessageHandler), !.read = TRUE,
                                  !.handed = irohMessageHandler]
                   ELSE [@ EXCEPT !.pc = "failed"]]
  /\ UNCHANGED <<subs, down, ownIdentity, xmtpKeys, irohMessageHandler, tablesReady,
                 sendBudget, apiVars, pipeVars, storeVars, foreignKeys, faults, sent,
                 nextUuid, now, driverVars, callVars>>

\* await this.irohMessageHandler(message) resolves: the handler catches its
\* own errors
IrohHandlerReturns(c) ==
  /\ conns[c].pc = "handler"
  /\ conns' = [conns EXCEPT ![c].pc = "ack"]
  /\ UNCHANGED <<subs, down, ownIdentity, xmtpKeys, irohMessageHandler, tablesReady,
                 sendBudget, apiVars, pipeVars, storeVars, foreignKeys, faults, sent,
                 nextUuid, now, driverVars, callVars>>

\* bi.send.writeAll(Buffer.from('ACK: Received')) and finish(), or the write
\* fails and the catch logs
IrohWriteAck(c) ==
  /\ conns[c].pc = "ack"
  /\ \E ok \in BOOLEAN :
       conns' = [conns EXCEPT ![c] =
                   IF ok THEN [@ EXCEPT !.pc = "closed", !.acked = TRUE]
                   ELSE [@ EXCEPT !.pc = "failed"]]
  /\ UNCHANGED <<subs, down, ownIdentity, xmtpKeys, irohMessageHandler, tablesReady,
                 sendBudget, apiVars, pipeVars, storeVars, foreignKeys, faults, sent,
                 nextUuid, now, driverVars, callVars>>

NextIroh ==
  \/ Initialize
  \/ StartListening
  \/ \E c \in Connections : IrohAccept(c)
  \/ \E c \in Connections : IrohRead(c)
  \/ \E c \in Connections : IrohHandlerReturns(c)
  \/ \E c \in Connections : IrohWriteAck(c)

SpecIroh == InitSend /\ [][NextIroh]_vars

\* ---------------------------------------------- the store under its clients
\* the Message rows the callers hand to saveMessage: two differ on one uuid
StoreRow(u, ts) ==
  [uuid |-> u, fromIdentity |-> PeerP, toIdentity |-> MyMagnet, timestamp |-> ts,
   isAcknowledgment |-> FALSE, firstReceivedProtocol |-> Null,
   firstReceivedAt |-> Null]

\* the calls the clients make; an optional argument left out is Null
Requests ==
  { [op |-> "saveMessage", row |-> StoreRow(x[1], x[2])] :
      x \in {<<1, 1>>, <<1, 2>>, <<2, 1>>} }
  \cup
  { [op |-> "saveMessageReceipt", row |-> ReceiptRow(Envelope(1), "nostr", 1, FALSE)] }
  \cup
  { [op |-> "updateChannelPreference", identity |-> PeerP, protocol |-> k,
     preferenceOrder |-> po] : k \in StoreProtocols, po \in {Null, Some(1), Some(2)} }
  \cup
  { [op |-> "updateProtocolPerformance", label |-> q, acked |-> a, latencyMs |-> l] :
      q \in PerfProtocols, a \in BOOLEAN, l \in {Null, Some(0), Some(1), Some(4)} }

\* the arguments updateChannelPreference binds for a request
BoundPreference(req) ==
  [identity |-> req.identity, protocol |-> req.protocol, isWorking |-> TRUE,
   lastAckAt |-> Null, avgLatencyMs |-> Null,
   preferenceOrder |-> OptOrNull(req.preferenceOrder), cannotUse |-> FALSE]

RECURSIVE SumOver(_, _)
SumOver(f, S) ==
  IF S = {} THEN 0
  ELSE LET x == CHOOSE y \in S : TRUE IN f[x] + SumOver(f, S \ {x})
StoreCallsMade == SumOver([c \in Callers |-> ops[c].n], Callers)

\* a client calls a ChatDatabase method
StoreCall(c, req) ==
  /\ ops[c].pc \in {"idle", "returned", "threw"}
  /\ StoreCallsMade < MaxStoreCalls
  /\ ops' = [ops EXCEPT ![c] = [pc |-> "running", req |-> req, i |-> 0, outs |-> <<>>,
                                n |-> @.n + 1, at |-> now, err |-> "none"]]
  /\ UNCHANGED <<sessionVars, pipeVars, storeVars, foreignKeys, faults, sent, nextUuid, now,
                 driverVars, callVars, hist>>

\* the stored preference_order of a key, NULL when it has no row
StoredOrder(table, identity, protocol) ==
  IF PreferenceRows(table, identity, protocol) = {} THEN Null
  ELSE (CHOOSE r \in PreferenceRows(table, identity, protocol) : TRUE).preferenceOrder

\* what an executed statement adds to the history
Committed(req) ==
  CASE req.op = "saveMessage" ->
         [hist EXCEPT !.firstSaved[req.row.uuid] = IF @ = Null THEN Some(req.row) ELSE @,
                      !.savedRows[req.row.uuid] = @ \cup {req.row}]
    [] req.op = "saveMessageReceipt" -> hist
    [] req.op = "updateMessageFirstReceipt" ->
         [hist EXCEPT !.firstReceiptUpdates[req.uuid] =
            @ \cup { [protocol |-> req.protocol, found |-> r.firstReceivedProtocol]
                     : r \in RowsOf(messages, req.uuid) }]
    [] req.op = "updateChannelPreference" ->
         [hist EXCEPT !.lastPref[req.protocol] =
            Some([supplied |-> req.preferenceOrder,
                  before |-> StoredOrder(prefs, req.identity, req.protocol)])]
    [] OTHER ->
         [hist EXCEPT !.latencies[req.label] = Append(@, req.latencyMs)]

\* executeWithRetry: one attempt of the statement of the call
StoreAttempt(c) ==
  LET req == ops[c].req IN
  /\ ops[c].pc = "running"
  /\ req.op = "saveMessage" => tablesReady
  /\ \E o \in Outcomes :
       /\ o # "ok" => CanFail(ops[c].i)
       /\ faults' = Fault(o, ops[c].i)
       /\ LET eff == IF o = "ok" /\ req.op = "saveMessageReceipt"
                        /\ ~ReceiptInsertAllowed(foreignKeys, messages, req.row.messageUuid)
                     THEN "error" ELSE Executed(o, tablesReady)
              d == RetryDecision(eff, ops[c].i)
          IN
          /\ messages' = IF eff = "ok" /\ req.op = "saveMessage"
                         THEN InsertOrIgnoreMessage(messages, req.row)
                         ELSE IF eff = "ok" /\ req.op = "updateMessageFirstReceipt"
                         THEN UpdateFirstReceipt(messages, req.uuid, req.protocol,
                                                 req.receivedAt)
                         ELSE messages
          /\ receipts' = IF eff = "ok" /\ req.op = "saveMessageReceipt"
                         THEN InsertReceipt(receipts, req.row) ELSE receipts
          /\ prefs' = IF eff = "ok" /\ req.op = "updateChannelPreference"
                      THEN UpsertPreference(prefs, BoundPreference(req)) ELSE prefs
          /\ perf' = IF eff = "ok" /\ req.op = "updateProtocolPerformance"
                     THEN UpsertPerformance(perf, req.label, req.acked,
                                            req.latencyMs, ops[c].at)
                     ELSE perf
          /\ hist' = IF eff = "ok" THEN Committed(req) ELSE hist
          /\ ops' = [ops EXCEPT ![c] =
                       [@ EXCEPT !.outs = Append(@, eff),
                                 !.req = IF d = "retry" THEN @ ELSE [op |-> "none"],
                                 !.i = IF d = "retry" THEN @ + 1 ELSE @,
                                 !.err = IF d = "throw" THEN eff ELSE "none",
                                 !.pc = CASE d = "return" -> "returned"
                                          [] d = "retry" -> "running"
                                          [] OTHER -> "threw"]]
  /\ UNCHANGED <<sessionVars, pipeVars, foreignKeys, sent, nextUuid, now,
                 driverVars, callVars>>

NextStore ==
  \/ \E c \in Callers, req \in Requests : StoreCall(c, req)
  \/ \E c \in Callers : StoreAttempt(c)

\* the store under its clients alone: no driver of the broadcaster is in use
InitStore == InitSend /\ options = AllDisabled

SpecStore == InitStore /\ [][NextStore]_vars

\* ------------------------------------------------ the rows of table messages
\* the calls that touch a Message row: saveMessage with the rows the callers
\* build (an outgoing message, the same uuid with other fields, an inbound
\* message with its first receipt), updateMessageFirstReceipt, and
\* saveMessageReceipt
RowRequests ==
  { [op |-> "saveMessage", row |-> row] :
      row \in { StoreRow(1, 1), StoreRow(1, 2), InboundRow(Envelope(1), "nostr", 1) } }
  \cup
  { [op |-> "updateMessageFirstReceipt", uuid |-> 1, protocol |-> x[1],
     receivedAt |-> x[2]] : x \in { <<"nostr", 1>>, <<"MQTT", 2>> } }
  \cup
  { [op |-> "saveMessageReceipt", row |-> ReceiptRow(Envelope(1), "MQTT", 2, TRUE)] }

NextRows ==
  \/ \E c \in Callers, req \in RowRequests : StoreCall(c, req)
  \/ \E c \in Callers : StoreAttempt(c)

SpecRows == InitStore /\ [][NextRows]_vars


\* ================================================================ the claims
AckCount(u) ==
  Cardinality({ i \in 1..Len(sent) :
                  sent[i].type = "acknowledgment" /\ sent[i].ackOfUuid = u })
AllSettled(u) == \A p \in Transports : Settled(<<u, p>>)
MessageUuids == { u \in InboundUuids : ~isAcknowledgment(Envelope(u)) }

\* C1: once k >= 1 arrivals of a uuid have all been processed (every invocation
\* has returned or rejected) and the environment has disturbed no store call,
\* the store holds the Message row of the uuid and exactly k Receipt rows for it
C1_OneMessageKReceipts ==
  \A u \in InboundUuids :
    (stats[u].n >= 1 /\ AllSettled(u) /\ faults = 0)
      => (HasMessage(messages, u) /\ Len(receipts[u]) = stats[u].n)

\* C2: a message uuid is never acknowledged twice, and once its arrivals are
\* processed, the first-seen one without a rejection, exactly one
\* acknowledgment broadcast with ackOfUuid = u has been issued
C2_ExactlyOneAck ==
  \A u \in MessageUuids :
    /\ AckCount(u) <= 1
    /\ (stats[u].n >= 1 /\ AllSettled(u) /\ stats[u].firstErrs = 0)
         => AckCount(u) = 1

\* C2 happens: a message arrived twice, both arrivals are processed, one ack
C2_Witness ==
  \E u \in MessageUuids :
    stats[u].n >= 2 /\ AllSettled(u) /\ stats[u].firstErrs = 0 /\ AckCount(u) = 1

\* C3: no acknowledgment broadcast answers an inbound acknowledgment, and when
\* every invocation has settled without a rejected first-seen pipeline the
\* acknowledgments sent are as many as the distinct message uuids received
C3_NoAckOfAck ==
  /\ \A i \in 1..Len(sent) :
       sent[i].type = "acknowledgment" => sent[i].ackOfUuid \in MessageUuids
  /\ ((\A u \in InboundUuids : AllSettled(u) /\ stats[u].firstErrs = 0)
        => Cardinality({ i \in 1..Len(sent) : sent[i].type = "acknowledgment" })
             = Cardinality(seenMessageUuids \cap MessageUuids))

\* C3 happens: an inbound acknowledgment went through the whole pipeline (its
\* handlers ran) next to an acknowledged message
C3_Witness ==
  \E a \in InboundUuids \ MessageUuids :
    /\ stats[a].n >= 1 /\ AllSettled(a) /\ stats[a].firstErrs = 0
    /\ Len(handled[a]) = Len(messageHandlers)
    /\ Len(sent) = 1
    /\ \A u \in InboundUuids : AllSettled(u)

\* C4: however many invocations carry a uuid, exactly one of them takes the
\* first-seen branch
C4_OneFirstSeen ==
  \A u \in InboundUuids : stats[u].n >= 1 => stats[u].firsts = 1

\* C4 happens: two invocations for one uuid are in flight together
C4_Witness ==
  \E u \in InboundUuids :
    /\ stats[u].n = 2
    /\ \A p \in Transports : ~Settled(<<u, p>>)

\* C5: every stored Receipt has a stored Message with its uuid
C5_ReceiptHasMessage ==
  \A u \in InboundUuids : Len(receipts[u]) > 0 => HasMessage(messages, u)

\* C6: a Receipt written by the duplicate branch comes after the Receipt
\* written by the first-seen arrival of its uuid
C6_DuplicateAfterFirst ==
  \A u \in InboundUuids : \A i \in 1..Len(receipts[u]) :
    receipts[u][i].dup => \E j \in 1..(i - 1) : ~receipts[u][j].dup

\* C7: the acknowledgment of a message is built and broadcast only when the
\* Message row of the inbound message is in the store
C7_AckAfterMessageRow ==
  /\ \A u \in InboundUuids, p \in Transports :
       inv[<<u, p>>].pc \in {"ackSave", "ackSend"} => HasMessage(messages, u)
  /\ \A i \in 1..Len(sent) :
       sent[i].type = "acknowledgment" => HasMessage(messages, sent[i].ackOfUuid)

\* C7 happens: an acknowledgment has been broadcast
C7_Witness ==
  \E i \in 1..Len(sent) :
    sent[i].type = "acknowledgment" /\ HasMessage(messages, sent[i].ackOfUuid)

\* the call has handed back, or is about to hand back, broadcast's vector
HasVector == call.pc \in {"perf", "returned"}
InitializedDrivers == { d \in DriverSet : initDone[d] = "ok" }
ResultDrivers == { call.results[j].driver : j \in 1..Len(call.results) }
BadRecipient == ~DecodeIdentity(call.to).ok

\* C8: a broadcast with a valid recipient, in any state after initialize,
\* returns exactly one entry per driver whose initialization succeeded (none
\* when none did), each with latencyMs >= 0.
C8_OneEntryPerInitializedDriver ==
  HasVector =>
    /\ ResultDrivers = InitializedDrivers
    /\ Len(call.results) = Cardinality(InitializedDrivers)
    /\ \A j \in 1..Len(call.results) : call.results[j].latencyMs >= 0

\* C9: broadcast throws exactly when the recipient magnet link is missing or
\* undecodable; it then raises the one error 'Invalid recipient magnet link'
\* and has started no driver send; with any other recipient it goes on to
\* its sends and returns.
C9_ThrowsIffInvalidRecipient ==
  /\ call.pc \in {"sending", "perf", "returned"} => ~BadRecipient
  /\ (call.pc = "threw" /\ call.kind = "broadcast") =>
       /\ BadRecipient
       /\ call.errors = << "Invalid recipient magnet link" >>
  /\ (call.pc = "threw" /\ BadRecipient) =>
       /\ Len(call.errors) = 1
       /\ call.launched = <<>>
       /\ call.results = <<>>
       /\ \A j \in 1..Len(sent) : sent[j].to # call.to

\* C9 witness: a broadcast to an undecodable recipient has thrown while a
\* driver was live to send on
C9_Witness ==
  /\ call.pc = "threw"
  /\ call.kind = "broadcast"
  /\ call.to = Garbled
  /\ Len(BroadcastTargets) > 0

\* C10: sendMessage with an invalid recipient invokes no driver and leaves
\* the store as it was: no message row, no protocol_performance row.
C10_InvalidRecipientStoreUntouched ==
  (call.kind = "sendMessage" /\ BadRecipient /\ call.pc = "threw") =>
    /\ call.launched = <<>>
    /\ <<messages, perf>> = call.before

\* the drivers a send was started on by the broadcast of the call
ContactedDrivers == { call.launched[j] : j \in 1..Len(call.launched) }

\* C11: initialize returns whatever subset of the enabled drivers failed to
\* initialize, and a broadcast made afterwards starts a send on exactly the
\* drivers whose initialization succeeded.
C11_BroadcastContactsInitialized ==
  /\ Initialized => \A d \in DriverSet : initDone[d] \in {"ok", "failed", "disabled"}
  /\ call.pc \in {"sending", "perf", "returned"} =>
       /\ ContactedDrivers = InitializedDrivers
       /\ Len(call.launched) = Cardinality(InitializedDrivers)

\* C12: whatever saveMessage calls were executed for a uuid, with equal or
\* different fields, one after the other or together, the table holds exactly
\* one row with that uuid and it is the row of the first one executed; it holds
\* none while none was executed.
C12_SaveMessageIdempotent ==
  \A u \in StoreUuids :
    IF hist.firstSaved[u] = Null
    THEN RowsOf(messages, u) = {}
    ELSE RowsOf(messages, u) = { hist.firstSaved[u][1] }

\* C12 happens: two saveMessage calls with different fields were executed for
\* one uuid
C12_Witness ==
  \E u \in StoreUuids :
    Cardinality(hist.savedRows[u]) >= 2 /\ Cardinality(RowsOf(messages, u)) = 1

\* C13: a store call makes at most maxRetries = 5 attempts; every attempt but
\* the last ended busy; it returns exactly after an attempt that succeeded; it
\* throws the error of its last attempt, which is a non-busy error or the busy
\* error of the fifth attempt.
C13_RetryOnlyBusyAtMostFive ==
  \A c \in Callers :
    LET o == ops[c].outs
        n == Len(o)
    IN /\ n <= 5
       /\ \A j \in 1..(n - 1) : o[j] = "busy"
       /\ ops[c].pc = "running" => (n < 5 /\ \A j \in 1..n : o[j] = "busy")
       /\ ops[c].pc = "returned" => (n >= 1 /\ o[n] = "ok")
       /\ ops[c].pc = "threw" =>
            /\ n >= 1
            /\ ops[c].err = o[n]
            /\ o[n] = "error" \/ (o[n] = "busy" /\ n = 5)

\* C13 happens: a call threw busy after five busy attempts
C13_Witness ==
  \E c \in Callers :
    ops[c].pc = "threw" /\ ops[c].err = "busy" /\ Len(ops[c].outs) = 5

\* C14: every protocol_performance row has totalAcked <= totalSent.
C14_AckedAtMostSent ==
  \A r \in perf : r.totalAcked <= r.totalSent

\* C14 happens: a row updated more than once whose sends were all acknowledged
C14_Witness ==
  \E r \in perf : r.totalSent >= 2 /\ r.totalAcked = r.totalSent

\* the average the fold a1 = l1, a(i+1) = floor((a(i) + l(i+1)) / 2) gives for
\* the calls executed so far, a call without a latency leaving it unchanged
RECURSIVE FoldedAverage(_)
FoldedAverage(ls) ==
  IF ls = <<>> THEN Null
  ELSE LET prior == FoldedAverage(SubSeq(ls, 1, Len(ls) - 1))
           l == ls[Len(ls)]
       IN IF l = Null THEN prior
          ELSE IF prior = Null THEN l
          ELSE Some((prior[1] + l[1]) \div 2)

\* C15: after the updateProtocolPerformance calls executed for a protocol,
\* with latencies l1..ln, 0 included, its avgLatencyMs is the fold
\* a1 = l1, a(i+1) = floor((a(i) + l(i+1)) / 2); a call without a latency leaves
\* it unchanged.
C15_AverageIsFold ==
  \A q \in PerfProtocols :
    \A r \in PerformanceRows(perf, q) :
      r.avgLatencyMs = FoldedAverage(hist.latencies[q])

\* C16: channel_preferences has at most one row per (identity, protocol), and
\* when the last call executed for a key supplied no preferenceOrder, the row
\* has the preferenceOrder that was stored before that call.
C16_UpsertKeepsOrder ==
  \A k \in StoreProtocols :
    /\ Cardinality(PreferenceRows(prefs, PeerP, k)) <= 1
    /\ (hist.lastPref[k] # Null /\ hist.lastPref[k][1].supplied = Null)
         => StoredOrder(prefs, PeerP, k) = hist.lastPref[k][1].before

\* C16 happens: a call without preferenceOrder was executed on a key whose row
\* had one stored
C16_Witness ==
  \E k \in StoreProtocols :
    /\ hist.lastPref[k] # Null
    /\ hist.lastPref[k][1].supplied = Null
    /\ hist.lastPref[k][1].before # Null

AckUuids == InboundUuids \ MessageUuids
\* the receipts of a uuid the duplicate branch stored
DuplicateRows(u) == { j \in 1..Len(receipts[u]) : receipts[u][j].dup }
\* the arrival of u on p was the first-seen one and its processing is over
FirstSeenDone(u, p) ==
  /\ inv[<<u, p>>].pc = "done"
  /\ \E r \in RowsOf(messages, u) : r.firstReceivedProtocol = Some(p)
  /\ Len(handled[u]) = Len(messageHandlers)

\* C17: when handleIncomingMessage has finished with a first-seen
\* acknowledgment from peer P that arrived on transport T, the preference row
\* (P, T) has isWorking, a lastAckAt, avgLatencyMs = now - msg.timestamp and
\* not cannotUse.
C17_AckMarksChannelWorking ==
  \A a \in AckUuids, t \in Transports :
    FirstSeenDone(a, t) =>
      \E r \in PreferenceRows(prefs, Envelope(a).fromMagnetLink, t) :
        /\ r.isWorking
        /\ ~r.cannotUse
        /\ r.lastAckAt # Null
        /\ r.avgLatencyMs = Some(r.lastAckAt[1] - Envelope(a).timestamp)

\* C18: an arrival of an already seen uuid appends exactly one Receipt row and
\* nothing else: with the store undisturbed and the arrivals of a uuid all
\* processed, the duplicate branch has stored one row per duplicate arrival,
\* the uuid has at most the one Message row of its first transport, its
\* handlers ran at most once, at most one acknowledgment went out, and a
\* message left no preference row.
C18_DuplicateOnlyAppendsReceipt ==
  \A u \in InboundUuids :
    /\ (faults = 0 /\ AllSettled(u))
         => Cardinality(DuplicateRows(u)) = stats[u].n - stats[u].firsts
    /\ Cardinality(RowsOf(messages, u)) <= 1
    /\ Len(handled[u]) <= Len(messageHandlers)
    /\ u \in MessageUuids => (AckCount(u) <= 1 /\ (AckUuids = {} => prefs = {}))
    /\ stats[u].n >= 1 => u \in seenMessageUuids

\* C19: every duplicate arrival whose Receipt row is stored has handed a
\* receipt event (uuid, transport, isDuplicate = true) to the receipt handlers.
C19_DuplicateEmitsReceiptEvent ==
  \A u \in InboundUuids :
    Len(DuplicateReceiptEvents(u)) = Cardinality(DuplicateRows(u))

\* C20: for every uuid the handlers that ran are the first ones registered, in
\* registration order, each once, however many arrivals the uuid had; none ran
\* for a uuid that has not been through the first-seen branch.
C20_HandlersOnceInOrder ==
  \A u \in InboundUuids :
    /\ Len(handled[u]) <= Len(messageHandlers)
    /\ \A j \in 1..Len(handled[u]) : handled[u][j] = messageHandlers[j]
    /\ handled[u] # <<>> => (stats[u].firsts = 1 /\ HasMessage(messages, u))

\* C20 happens: a uuid arrived twice, both arrivals are processed and every
\* handler ran
C20_Witness ==
  \E u \in InboundUuids :
    stats[u].n >= 2 /\ AllSettled(u) /\ handled[u] = messageHandlers

\* the arrival of u1 on transport t is still waiting for its message insert
\* while u2, which arrived on t at a later time, has its Message row
InsertOvertaken(u1, u2, t) ==
  /\ inv[<<u1, t>>].pc = "saveMessage"
  /\ \E r \in RowsOf(messages, u2) :
       /\ r.firstReceivedProtocol = Some(t)
       /\ r.firstReceivedAt # Null
       /\ inv[<<u1, t>>].at < r.firstReceivedAt[1]

\* C21: of two distinct messages that arrive on the same transport, the one
\* that arrived first has its Message row inserted first: no message has its
\* row while a message that arrived earlier on that transport still waits for
\* its insert.
C21_PerTransportOrder ==
  \A t \in Transports : \A u1 \in InboundUuids : \A u2 \in InboundUuids \ {u1} :
    ~InsertOvertaken(u1, u2, t)

\* the acknowledgment broadcasts of the log
AckRecords == { i \in 1..Len(sent) : sent[i].type = "acknowledgment" }
\* the drivers a logged broadcast launched a send on
LaunchedDrivers(rec) == { rec.drivers[j] : j \in 1..Len(rec.drivers) }

\* C22: whatever became of the send of an acknowledgment (broadcast threw, or
\* returned whatever driver results), the inbound message it acknowledges has
\* its Message row, the Receipt row of its first arrival and all its handler
\* invocations, and its handleIncomingMessage did not reject.
C22_AckSendFailureHarmless ==
  \A i \in AckRecords :
    LET u == sent[i].ackOfUuid
        t == sent[i].receivedVia
    IN /\ \E r \in RowsOf(messages, u) : r.firstReceivedProtocol = Some(t)
       /\ \E j \in 1..Len(receipts[u]) :
            receipts[u][j].protocol = t /\ ~receipts[u][j].dup
       /\ handled[u] = messageHandlers
       /\ stats[u].firstErrs = 0

\* C22 happens: the broadcast of an acknowledgment threw
C22_Witness ==
  \E i \in AckRecords :
    sent[i].threw /\ Settled(<<sent[i].ackOfUuid, sent[i].receivedVia>>)

\* C23: the acknowledgment of a message is sent on every initialized driver,
\* whatever transport the message arrived on.
C23_AckOnEveryInitializedDriver ==
  \A i \in AckRecords :
    ~sent[i].threw => LaunchedDrivers(sent[i]) = InitializedDrivers

\* C24: a relay that is back in the pool after a close delivers its events
\* again: every connected relay of the pool carries the subscription.
C24_ReconnectedRelayDelivers ==
  \A j \in 1..Len(nostrRelays) :
    nostrRelays[j].connected => nostrRelays[j].url \in subs

\* the acknowledgments whose ackOfUuid names no message of the store
OrphanAcks == { a \in AckUuids : ~HasMessage(messages, Envelope(a).ackOfUuid) }

\* C27: an acknowledgment of a message the receiver never observed is stored
\* and is not fatal: once its one arrival is processed, with the store
\* undisturbed, it has one Message row and one Receipt row and its
\* handleIncomingMessage has returned without error.
C27_OrphanAckStored ==
  \A a \in OrphanAcks :
    (stats[a].n = 1 /\ AllSettled(a) /\ faults = 0) =>
      /\ Cardinality(RowsOf(messages, a)) = 1
      /\ Len(receipts[a]) = 1
      /\ stats[a].firstErrs = 0 /\ stats[a].dupErrs = 0
      /\ \E t \in Transports : inv[<<a, t>>].pc = "done"

\* C27 happens: an orphan acknowledgment arrived once and is processed
C27_Witness ==
  \E a \in OrphanAcks :
    stats[a].n = 1 /\ AllSettled(a) /\ faults = 0 /\ HasMessage(messages, a)


\* C29: a relay that closed is removed from the pool and its reconnect is on
\* its way until the relay is back in the pool: a URL that awaits its
\* reconnect keeps awaiting it or is pooled again, and no URL is pooled twice.
C29_ClosedRelayComesBack ==
  [][ /\ \A url \in timers : url \in timers' \/ url \in PooledUrls(nostrRelays')
      /\ Cardinality(PooledUrls(nostrRelays')) = Len(nostrRelays') ]_vars

\* the broadcast in progress or returned is addressed to the sender's own node
ToOwnNode ==
  /\ call.kind = "broadcast"
  /\ DecodeIdentity(call.to).ok
  /\ IrohNodeId(DecodeIdentity(call.to).id) = IrohNodeId(ownIdentity.magnetLink)
\* the results of a driver that have settled in the call
ResultsOf(d) == { call.results[j] : j \in { x \in DOMAIN call.results : call.results[x].driver = d } }

C26_ShutdownBestEffort ==
  /\ down.pc # "threw"
  /\ ~down.threw
  /\ down.pc = "returned" => InitializedDrivers \subseteq down.attempted

\* the relays of a pool snapshot that are connected
ConnectedIn(pool) == { u \in PooledUrls(pool) : \E x \in 1..Len(pool) : pool[x].url = u /\ pool[x].connected }

SendsInvoked(d) == { j \in 1..Len(call.launched) : call.launched[j] = d }

\* C31: within one broadcast call the send of each initialized driver is
\* invoked exactly once, and once the vector is returned every send that was
\* invoked has its one entry in it, a failed one with success = false.
C31_EachDriverSentOnce ==
  /\ call.pc \in {"sending", "perf", "returned"} =>
       \A d \in InitializedDrivers : Cardinality(SendsInvoked(d)) = 1
  /\ HasVector =>
       \A j \in 1..Len(call.launched) :
         /\ call.results[j].driver = call.launched[j]
         /\ call.results[j].error # "none" => ~call.results[j].success

\* C32: on every connection the IROH listener accepted, the ACK is written on
\* the stream only after the inbound handler has been invoked with the payload
\* that was read.
C32_IrohAckAfterHandler ==
  \A c \in Connections : conns[c].acked => (conns[c].read /\ conns[c].handed)

\* the fields of a Message row that are set when it is created
Content(r) == [uuid |-> r.uuid, fromIdentity |-> r.fromIdentity, toIdentity |-> r.toIdentity,
               timestamp |-> r.timestamp, isAcknowledgment |-> r.isAcknowledgment]

RECURSIVE GetMessageReceipts(_)
GetMessageReceipts(rows) ==
  IF rows = <<>> THEN <<>>
  ELSE LET rest == GetMessageReceipts(SubSeq(rows, 1, Len(rows) - 1))
           last == rows[Len(rows)]
           k == Cardinality({ i \in 1..Len(rest) : rest[i].receivedAt <= last.receivedAt })
       IN SubSeq(rest, 1, k) \o << last >> \o SubSeq(rest, k + 1, Len(rest))

\* C34: for every uuid with a Receipt, the first element of
\* getMessageReceipts(uuid) is the receipt the first-seen arrival wrote, and its
\* protocol is the firstReceivedProtocol of the Message row.
C34_FirstReceiptIsFirstSeen ==
  \A u \in InboundUuids :
    Len(receipts[u]) > 0 =>
      LET first == GetMessageReceipts(receipts[u])[1]
      IN /\ ~first.dup
         /\ \E r \in RowsOf(messages, u) : r.firstReceivedProtocol = Some(first.protocol)

\* the step is an attempt of a store mutation of the pipeline: the statement
\* of saveMessage, saveMessageReceipt or updateChannelPreference is executed
StoreMutationStep ==
  \E s \in Slots :
    /\ inv[s].pc \in {"saveMessage", "saveReceipt", "dupReceipt", "prefs", "ackSave"}
    /\ inv'[s] # inv[s]

\* C35: no store mutation executes its SQL before the table initialization of
\* a ChatDatabase built with the plain constructor has completed.
C35_NoMutationBeforeTables ==
  [][ StoreMutationStep => tablesReady ]_vars

\* C36: mqttClients holds the client of a broker at most once and only
\* clients initMQTT counted as connected (none when it counted none); hence
\* an MQTT send reports k of n with k <= n <= the number of configured brokers.
C36_MqttClientsOncePerBroker ==
  /\ \A i \in 1..Len(mqttClients) : \A j \in 1..Len(mqttClients) :
       i # j => mqttClients[i] # mqttClients[j]
  /\ initDone["mqtt"] # "ok" => mqttClients = <<>>
  /\ \A r \in ResultsOf("mqtt") :
       r.protocol[2] <= r.protocol[3] /\ r.protocol[3] <= Cardinality(Brokers)

\* C37: once shutdown has returned no transport connection is opened or
\* re-opened: no reconnect scheduled by a relay's close handler runs, and no
\* relay becomes connected.
C37_NoReconnectAfterShutdown ==
  [][ down.pc = "returned" =>
        /\ timers \subseteq timers'
        /\ PublishTargets(nostrRelays') \subseteq PublishTargets(nostrRelays) ]_vars

\* the name of a driver's transport, with which every protocol string of its
\* results starts
TransportName(d) ==
  CASE d = "xmtp" -> "XMTP V3" [] d = "nostr" -> "Nostr" [] d = "waku" -> "Waku"
    [] d = "mqtt" -> "MQTT" [] OTHER -> "IROH"
\* the rows of protocol_performance that hold results of driver d
AggregateRows(d) == { r \in perf : r.protocol[1] = TransportName(d) }
\* the results driver d has returned to the sendMessage calls so far
ResultsReturned(d) ==
  Cardinality({ i \in 1..Len(sent) :
                  sent[i].type = "message" /\ d \in LaunchedDrivers(sent[i]) })

\* C38: after any sequence of sendMessage calls there is at most one
\* protocol-aggregate row per transport, and when the calls have returned with
\* the store undisturbed its totalSent is the number of results the transport
\* has returned.
C38_OneAggregateRowPerTransport ==
  \A d \in DriverSet :
    /\ Cardinality(AggregateRows(d)) <= 1
    /\ (call.pc = "returned" /\ faults = 0) =>
         /\ ResultsReturned(d) > 0 => AggregateRows(d) # {}
         /\ \A r \in AggregateRows(d) : r.totalSent = ResultsReturned(d)

\* C39: whenever a uuid is in seenMessageUuids and none of its invocations is
\* in flight, its Message row is stored and every registered handler has been
\* fired for it exactly once.
C39_SeenMeansStoredAndDelivered ==
  \A u \in InboundUuids :
    (SeenHas(seenMessageUuids, u) /\ AllSettled(u)) =>
      /\ HasMessage(messages, u)
      /\ handled[u] = messageHandlers

\* C40: a broadcast whose launched sends all settle in the end returns its
\* result vector, with the entry of every send it launched, whatever sends
\* failed and without an acknowledgment from the recipient.
C40_BroadcastTerminates ==
  (call.pc = "sending") ~>
    (call.pc = "returned" /\ Len(call.results) = Len(call.launched))

\* C40 happens: a broadcast has returned the results of a send that failed and
\* of a send that succeeded, and no acknowledgment has come in
C40_Witness ==
  /\ call.pc = "returned"
  /\ \E j \in 1..Len(call.results) : ~call.results[j].success
  /\ \E j \in 1..Len(call.results) : call.results[j].success
  /\ seenMessageUuids = {}

====
